---- MODULE Spec2Model ----
(***************************************************************************)
(* Model of arr_assistant_mcp/main.py: the MediaServerAPI client for the   *)
(* movie backend (Radarr) and the series backend (Sonarr) and the six      *)
(* tools built on it.  One tool invocation runs at a time; every await of   *)
(* a network round trip is a step whose response the backend chooses.      *)
(*                                                                         *)
(* Environment: a backend may answer any request with a network fault or   *)
(* with any of the listed statuses.  When it answers with a success status *)
(* the body has the shape of the v3 API: a lookup is a list of records, a  *)
(* root-folder listing is a list of records that carry "path", and the     *)
(* body of a 201 is an object that carries an integer "id".                *)
(***************************************************************************)
EXTENDS Integers, Sequences, FiniteSets, TLC

VARIABLES
    config,       \* the module global `config` (None until setup_config)
    pc,           \* position of the running invocation
    op,           \* the tool being run
    args,         \* its arguments
    payload,      \* the add payload under construction / as posted
    requests,     \* network requests issued by the running invocation, in order
    addCalls,     \* calls of add_movie_to_radarr / add_series_to_sonarr made by it
    lookupResp,   \* the backend's answer to the lookup GET
    listingResp,  \* the backend's answer to the root-folder GET
    postResp,     \* the backend's answer to the add POST
    results,      \* the local list `results` of normalized search results
    status,       \* radarr_status of get_server_status
    statusResps,  \* the backends' answers to the status GETs, in order
    addResult,    \* what add_movie_to_radarr / add_series_to_sonarr returned
    listingsServed, \* root-folder listings the backends have served so far
    outcome       \* what the invocation returned or raised

vars == <<config, pc, op, args, payload, requests, addCalls, lookupResp,
          listingResp, postResp, results, status, statusResps, addResult,
          listingsServed, outcome>>

-----------------------------------------------------------------------------
(* Bounds *)

MaxId == 2             \* catalog ids and backend ids are drawn from 1..MaxId
MaxMovieLookup == 11   \* longest movie lookup list the backend returns
MaxShowLookup == 6     \* longest series lookup list the backend returns
MaxFolders == 2        \* longest root-folder listing
MaxServed == 2         \* listingsServed stops counting here

(* Program constants *)

MovieLimit == 10
ShowLimit == 5
HTTP_CREATED == 201
HTTP_UNAUTHORIZED == 401
HTTP_NOT_FOUND == 404
DefaultQualityProfileId == 1

-----------------------------------------------------------------------------
(* Python values whose truthiness the code tests: None, str, int. *)

PyNone == [kind |-> "none", s |-> "", n |-> 0]
PyStr(x) == [kind |-> "str", s |-> x, n |-> 0]
PyInt(i) == [kind |-> "int", s |-> "", n |-> i]

Truthy(v) == \/ v.kind = "str" /\ v.s # ""
             \/ v.kind = "int" /\ v.n # 0

SeqsUpTo(S, n) == UNION {[1..k -> S] : k \in 0..n}

Min(a, b) == IF a <= b THEN a ELSE b

-----------------------------------------------------------------------------
(* Configuration *)

NoConfig == [set |-> FALSE, radarr_api_key |-> "", sonarr_api_key |-> "",
             quality_profile_id |-> 0,
             radarr_root_folder |-> PyNone, sonarr_root_folder |-> PyNone]

ServerConfig(rk, sk, rrf, srf) ==
    [set |-> TRUE, radarr_api_key |-> rk, sonarr_api_key |-> sk,
     quality_profile_id |-> DefaultQualityProfileId,
     radarr_root_folder |-> rrf, sonarr_root_folder |-> srf]

ApiKeys == {"", "key"}
RadarrRootFolders == {PyNone, PyStr(""), PyStr("/y")}
SonarrRootFolders == {PyNone, PyStr(""), PyStr("/w")}

-----------------------------------------------------------------------------
(* Backend responses *)

NoResp == [got |-> FALSE, fault |-> FALSE, status |-> 0, list |-> <<>>,
           id |-> PyNone, text |-> ""]
Fault == [got |-> TRUE, fault |-> TRUE, status |-> 0, list |-> <<>>,
          id |-> PyNone, text |-> ""]
HttpResp(st, lst, i, txt) ==
    [got |-> TRUE, fault |-> FALSE, status |-> st, list |-> lst,
     id |-> i, text |-> txt]

ErrorStatuses == {HTTP_UNAUTHORIZED, HTTP_NOT_FOUND, 500}

\* raw lookup records of the movie backend (absent keys are PyNone)
MovieEntries ==
    { [title |-> PyStr("Primer"), overview |-> PyNone, tmdbId |-> PyInt(1),
       tvdbId |-> PyNone],
      [title |-> PyNone, overview |-> PyStr("o"), tmdbId |-> PyInt(2),
       tvdbId |-> PyNone] }

\* raw lookup records of the series backend; the second is a partial record
ShowEntries ==
    { [title |-> PyStr("Doctor Who"), overview |-> PyStr("o"),
       tmdbId |-> PyInt(2), tvdbId |-> PyInt(1)],
      [title |-> PyNone, overview |-> PyNone, tmdbId |-> PyInt(1),
       tvdbId |-> PyNone],
      [title |-> PyStr("Torchwood"), overview |-> PyNone, tmdbId |-> PyNone,
       tvdbId |-> PyInt(2)] }

LookupResponses(entries, maxLen) ==
    {Fault}
    \cup {HttpResp(st, <<>>, PyNone, "denied") : st \in ErrorStatuses}
    \cup {HttpResp(200, l, PyNone, "") : l \in SeqsUpTo(entries, maxLen)}

FolderPaths == {"/z", "/z2"}

ListingResponses ==
    {Fault}
    \cup {HttpResp(st, <<>>, PyNone, "denied") : st \in ErrorStatuses}
    \cup {HttpResp(200, l, PyNone, "") : l \in SeqsUpTo(FolderPaths, MaxFolders)}

PostResponses ==
    {Fault}
    \cup {HttpResp(HTTP_CREATED, <<>>, PyInt(i), "created") : i \in 1..MaxId}
    \cup {HttpResp(st, <<>>, PyInt(1), txt) :
            st \in {200, 400, 500}, txt \in {"", "rejected"}}

StatusResponses ==
    {Fault}
    \cup {HttpResp(st, <<>>, PyNone, "") : st \in ErrorStatuses \cup {200}}

\* response.raise_for_status()
RaisesForStatus(resp) == resp.status >= 400

-----------------------------------------------------------------------------
(* Requests *)

NoPayload == [kind |-> "none", title |-> "", catalogId |-> 0,
              qualityProfileId |-> 0, hasRootFolderPath |-> FALSE,
              rootFolderPath |-> PyNone]

Request(backend, method, path, body) ==
    [backend |-> backend, method |-> method, path |-> path, body |-> body]

LookupRequest(backend) ==
    Request(backend, "GET",
            IF backend = "radarr" THEN "/api/v3/movie/lookup"
                                  ELSE "/api/v3/series/lookup", NoPayload)
RootFolderRequest(backend) ==
    Request(backend, "GET", "/api/v3/rootfolder", NoPayload)
AddRequest(backend, body) ==
    Request(backend, "POST",
            IF backend = "radarr" THEN "/api/v3/movie" ELSE "/api/v3/series",
            body)
StatusRequest(backend) ==
    Request(backend, "GET", "/api/v3/system/status", NoPayload)

-----------------------------------------------------------------------------
(* Outcomes of an invocation *)

NoStatus == [status |-> "", message |-> ""]

NoOutcome ==
    [kind |-> "none", type |-> "none", keys |-> {}, error |-> "",
     results |-> <<>>, total_found |-> 0, success |-> FALSE, message |-> "",
     media_id |-> PyNone, connectivity |-> "", radarr |-> NoStatus,
     sonarr |-> NoStatus]

Raise(msg) == [NoOutcome EXCEPT !.kind = "raise", !.type = "exception",
                                !.error = msg]

ReturnError(msg) ==
    [NoOutcome EXCEPT !.kind = "return", !.type = "dict",
                      !.keys = {"error", "results"}, !.error = msg]

ReturnErrorOnly(msg) ==
    [NoOutcome EXCEPT !.kind = "return", !.type = "dict",
                      !.keys = {"error"}, !.error = msg]

AddMediaResponse(success, message, media_id) ==
    [NoOutcome EXCEPT !.kind = "return", !.type = "AddMediaResponse",
                      !.keys = {"success", "message", "media_id"},
                      !.success = success, !.message = message,
                      !.media_id = media_id]

ReturnList(rs) ==
    [NoOutcome EXCEPT !.kind = "return", !.type = "list", !.results = rs]

NoArgs == [title |-> "", id |-> 0, root_folder |-> PyNone, auto_add |-> FALSE]

Titles == {"Doctor Who"}
RootFolderArgs == {PyNone, PyStr(""), PyStr("/x")}

-----------------------------------------------------------------------------
(* Pure functions of the client *)

BackendOf(kind) == IF kind = "movie" THEN "radarr" ELSE "sonarr"

FormatMovieTitle(tmdb_id) == "Movie (TMDb ID: " \o ToString(tmdb_id) \o ")"

\* str(e) of the exception a failed request raises
ExceptionText(resp) ==
    IF resp.fault THEN "ConnectError"
    ELSE "HTTPStatusError " \o ToString(resp.status)

\* get_radarr_root_folders / get_sonarr_root_folders
GetRootFolders(resp) ==
    IF resp.fault \/ RaisesForStatus(resp) THEN <<>> ELSE resp.list

\* search_radarr_movies / search_sonarr_shows: the list, or the exception raised
SearchLookup(backend, resp) ==
    LET name == IF backend = "radarr" THEN "Radarr" ELSE "Sonarr" IN
    IF resp.fault THEN [ok |-> FALSE, exc |-> ExceptionText(resp), list |-> <<>>]
    ELSE IF resp.status = HTTP_UNAUTHORIZED
      THEN [ok |-> FALSE, list |-> <<>>,
            exc |-> name \o " authentication failed - verify your API key is correct"]
    ELSE IF resp.status = HTTP_NOT_FOUND
      THEN [ok |-> FALSE, list |-> <<>>,
            exc |-> name \o " lookup endpoint not found"]
    ELSE IF RaisesForStatus(resp)
      THEN [ok |-> FALSE, exc |-> ExceptionText(resp), list |-> <<>>]
    ELSE [ok |-> TRUE, exc |-> "", list |-> resp.list]

\* dict.get(key, default) for a key that may be absent
GetOr(v, default) == IF v.kind = "none" THEN default ELSE v.s

\* MediaSearchResult(...) built from one raw lookup record
MovieResult(movie) ==
    [title |-> GetOr(movie.title, "Unknown"),
     overview |-> GetOr(movie.overview, "No overview available"),
     tmdb_id |-> movie.tmdbId, tvdb_id |-> PyNone, media_type |-> "movie"]

ShowResult(show) ==
    [title |-> GetOr(show.title, "Unknown"),
     overview |-> GetOr(show.overview, "No overview available"),
     tmdb_id |-> show.tmdbId, tvdb_id |-> show.tvdbId, media_type |-> "tv"]

\* lst[:n + 1]
Take_OffByOne(lst, n) == SubSeq(lst, 1, Min(Len(lst), n + 1))

\* lst[:n]
Take(lst, n) == SubSeq(lst, 1, Min(Len(lst), n))

NormalizeMovies(lst) ==
    LET head == Take(lst, MovieLimit) IN
    [i \in 1..Len(head) |-> MovieResult(head[i])]

NormalizeShows(lst) ==
    LET head == Take(lst, ShowLimit) IN
    [i \in 1..Len(head) |-> ShowResult(head[i])]

\* the payload dict literal of add_movie_to_radarr / add_series_to_sonarr
BasePayload(kind, id, title) ==
    [kind |-> kind,
     title |-> IF kind = "movie" /\ title = "" THEN FormatMovieTitle(id)
               ELSE title,
     catalogId |-> id, qualityProfileId |-> config.quality_profile_id,
     hasRootFolderPath |-> FALSE, rootFolderPath |-> PyNone]

WithRootFolder(p, path) ==
    [p EXCEPT !.hasRootFolderPath = TRUE, !.rootFolderPath = path]

ConfiguredRootFolder(kind) ==
    IF kind = "movie" THEN config.radarr_root_folder
    ELSE config.sonarr_root_folder

\* RootFolderSource with the first two branches swapped
RootFolderSource_ConfigFirst(kind, root_folder) ==
    IF Truthy(ConfiguredRootFolder(kind)) THEN "config"
    ELSE IF Truthy(root_folder) THEN "parameter"
    ELSE "auto-detect"

\* RootFolderSource that always asks the backend
RootFolderSource_AlwaysDetect(kind, root_folder) == "auto-detect"

\* which branch of "parameter > config > auto-detect" is taken
RootFolderSource(kind, root_folder) ==
    IF Truthy(root_folder) THEN "parameter"
    ELSE IF Truthy(ConfiguredRootFolder(kind)) THEN "config"
    ELSE "auto-detect"

\* the auto-detect branch, given the listing
AutoDetect(p, root_folders) ==
    IF root_folders # <<>> THEN WithRootFolder(p, PyStr(root_folders[1]))
    ELSE p

\* AddResult without the except branch: the fault propagates
AddResult_Propagates(kind, title, resp) ==
    LET server == IF kind = "movie" THEN "Radarr" ELSE "Sonarr"
        noun == IF kind = "movie" THEN "movie" ELSE "series" IN
    IF resp.fault
      THEN Raise(ExceptionText(resp))
    ELSE IF resp.status = HTTP_CREATED
      THEN AddMediaResponse(TRUE, "Successfully added '" \o title \o "' to "
                                  \o server, resp.id)
    ELSE AddMediaResponse(FALSE, "Failed to add " \o noun \o ": " \o resp.text,
                          PyNone)

\* AddResult that does not copy the body's id
AddResult_DropsId(kind, title, resp) ==
    LET server == IF kind = "movie" THEN "Radarr" ELSE "Sonarr"
        noun == IF kind = "movie" THEN "movie" ELSE "series" IN
    IF resp.fault
      THEN AddMediaResponse(FALSE, "Error communicating with " \o server
                                   \o ": " \o ExceptionText(resp), PyNone)
    ELSE IF resp.status = HTTP_CREATED
      THEN AddMediaResponse(TRUE, "Successfully added '" \o title \o "' to "
                                  \o server, PyNone)
    ELSE AddMediaResponse(FALSE, "Failed to add " \o noun \o ": " \o resp.text,
                          PyNone)

\* AddResult that takes every 2xx status for success
AddResult_Any2xx(kind, title, resp) ==
    LET server == IF kind = "movie" THEN "Radarr" ELSE "Sonarr"
        noun == IF kind = "movie" THEN "movie" ELSE "series" IN
    IF resp.fault
      THEN AddMediaResponse(FALSE, "Error communicating with " \o server
                                   \o ": " \o ExceptionText(resp), PyNone)
    ELSE IF resp.status >= 200 /\ resp.status < 300
      THEN AddMediaResponse(TRUE, "Successfully added '" \o title \o "' to "
                                  \o server, resp.id)
    ELSE AddMediaResponse(FALSE, "Failed to add " \o noun \o ": " \o resp.text,
                          PyNone)

\* the try/except around the add POST
AddResult(kind, title, resp) ==
    LET server == IF kind = "movie" THEN "Radarr" ELSE "Sonarr"
        noun == IF kind = "movie" THEN "movie" ELSE "series" IN
    IF resp.fault
      THEN AddMediaResponse(FALSE, "Error communicating with " \o server
                                   \o ": " \o ExceptionText(resp), PyNone)
    ELSE IF resp.status = HTTP_CREATED
      THEN AddMediaResponse(TRUE, "Successfully added '" \o title \o "' to "
                                  \o server, resp.id)
    ELSE AddMediaResponse(FALSE, "Failed to add " \o noun \o ": " \o resp.text,
                          PyNone)

\* check_radarr_status / check_sonarr_status
CheckStatus(resp) ==
    IF resp.fault \/ RaisesForStatus(resp)
      THEN [status |-> "error", message |-> ExceptionText(resp)]
    ELSE [status |-> "connected", message |-> ""]

-----------------------------------------------------------------------------
(* State machine *)

\* a tool that does not test `config`
ConfigLoaded_Unchecked == TRUE

\* the test `if not config` at the top of every tool
ConfigLoaded == config.set

Init ==
    /\ config = NoConfig
    /\ pc = "idle"
    /\ op = "none"
    /\ args = NoArgs
    /\ payload = NoPayload
    /\ requests = <<>>
    /\ addCalls = <<>>
    /\ lookupResp = NoResp
    /\ listingResp = NoResp
    /\ postResp = NoResp
    /\ results = <<>>
    /\ status = NoStatus
    /\ statusResps = <<>>
    /\ addResult = NoOutcome
    /\ listingsServed = 0
    /\ outcome = NoOutcome

\* setup_config, called once before the server runs
SetupConfig ==
    /\ pc = "idle"
    /\ ~config.set
    /\ \E rk \in ApiKeys, sk \in ApiKeys,
          rrf \in RadarrRootFolders, srf \in SonarrRootFolders :
          config' = ServerConfig(rk, sk, rrf, srf)
    /\ UNCHANGED <<pc, op, args, payload, requests, addCalls, lookupResp,
                   listingResp, postResp, results, status, outcome>>
    /\ UNCHANGED <<statusResps, addResult, listingsServed>>

\* entry of add_movie_to_radarr / add_series_to_sonarr, up to its first await
BeginAdd(kind, id, title, root_folder) ==
    LET p == BasePayload(kind, id, title)
        src == RootFolderSource(kind, root_folder)
        call == [fn |-> IF kind = "movie" THEN "add_movie_to_radarr"
                        ELSE "add_series_to_sonarr",
                 id |-> id, title |-> title, root_folder |-> root_folder] IN
    /\ addCalls' = Append(addCalls, call)
    /\ IF src = "parameter"
         THEN /\ payload' = WithRootFolder(p, root_folder)
              /\ requests' = Append(requests, AddRequest(BackendOf(kind), payload'))
              /\ pc' = "post"
       ELSE IF src = "config"
         THEN /\ payload' = WithRootFolder(p, ConfiguredRootFolder(kind))
              /\ requests' = Append(requests, AddRequest(BackendOf(kind), payload'))
              /\ pc' = "post"
       ELSE /\ payload' = p
            /\ requests' = Append(requests, RootFolderRequest(BackendOf(kind)))
            /\ pc' = "listing"

\* search_movies, up to its first await
CallSearchMovies ==
    /\ pc = "idle"
    /\ \E title \in Titles :
         /\ op' = "search_movies"
         /\ args' = [NoArgs EXCEPT !.title = title]
    /\ IF ~ConfigLoaded
         THEN /\ outcome' = ReturnError("Server not configured. Please set up Radarr API key.")
              /\ pc' = "done"
              /\ UNCHANGED requests
       ELSE IF config.radarr_api_key = ""
         THEN /\ outcome' = ReturnError("Radarr API key not configured")
              /\ pc' = "done"
              /\ UNCHANGED requests
       ELSE /\ requests' = Append(requests, LookupRequest("radarr"))
            /\ pc' = "lookup"
            /\ UNCHANGED outcome
    /\ UNCHANGED <<config, payload, addCalls, lookupResp, listingResp,
                   postResp, results, status>>
    /\ UNCHANGED <<statusResps, addResult, listingsServed>>

\* search_movies after the lookup answered
SearchMoviesLookup ==
    /\ pc = "lookup"
    /\ op = "search_movies"
    /\ \E resp \in LookupResponses(MovieEntries, MaxMovieLookup) :
         LET r == SearchLookup("radarr", resp) IN
         /\ lookupResp' = resp
         /\ IF ~r.ok
              THEN /\ outcome' = ReturnError("Error during movie search: " \o r.exc)
                   /\ UNCHANGED results
            ELSE IF r.list = <<>>
              THEN /\ outcome' = [NoOutcome EXCEPT
                                    !.kind = "return", !.type = "dict",
                                    !.keys = {"message", "results", "searched_query"},
                                    !.message = "No movies found matching '"
                                                \o args.title \o "'"]
                   /\ UNCHANGED results
            ELSE /\ results' = NormalizeMovies(r.list)
                 /\ outcome' = [NoOutcome EXCEPT
                                  !.kind = "return", !.type = "dict",
                                  !.keys = {"results", "total_found", "searched_query"},
                                  !.results = results',
                                  !.total_found = Len(results')]
    /\ pc' = "done"
    /\ UNCHANGED <<config, op, args, payload, requests, addCalls, listingResp,
                   postResp, status>>
    /\ UNCHANGED <<statusResps, addResult, listingsServed>>

\* add_movie_by_id, up to its first await
CallAddMovieById ==
    /\ pc = "idle"
    /\ \E tmdb_id \in 1..MaxId, root_folder \in RootFolderArgs :
         /\ op' = "add_movie_by_id"
         /\ args' = [NoArgs EXCEPT !.id = tmdb_id, !.root_folder = root_folder,
                                   !.title = FormatMovieTitle(tmdb_id)]
         /\ IF ~ConfigLoaded
              THEN /\ outcome' = Raise("Server not configured. Please set up Radarr API key.")
                   /\ pc' = "done"
                   /\ UNCHANGED <<payload, requests, addCalls>>
            ELSE /\ BeginAdd("movie", tmdb_id, FormatMovieTitle(tmdb_id), root_folder)
                 /\ UNCHANGED outcome
    /\ UNCHANGED <<config, lookupResp, listingResp, postResp, results, status>>
    /\ UNCHANGED <<statusResps, addResult, listingsServed>>

\* add_show_by_tvdb_id, up to its first await
CallAddShowByTvdbId ==
    /\ pc = "idle"
    /\ \E tvdb_id \in 1..MaxId, title \in Titles, root_folder \in RootFolderArgs :
         /\ op' = "add_show_by_tvdb_id"
         /\ args' = [NoArgs EXCEPT !.id = tvdb_id, !.title = title,
                                   !.root_folder = root_folder]
         /\ IF ~ConfigLoaded
              THEN /\ outcome' = Raise("Server not configured. Please set up Sonarr API key.")
                   /\ pc' = "done"
                   /\ UNCHANGED <<payload, requests, addCalls>>
            ELSE /\ BeginAdd("series", tvdb_id, title, root_folder)
                 /\ UNCHANGED outcome
    /\ UNCHANGED <<config, lookupResp, listingResp, postResp, results, status>>
    /\ UNCHANGED <<statusResps, addResult, listingsServed>>

\* the add operation after the root-folder listing answered: the POST is sent
AddListing ==
    /\ pc = "listing"
    /\ \E resp \in ListingResponses :
         /\ listingResp' = resp
         /\ payload' = AutoDetect(payload, GetRootFolders(resp))
         /\ requests' = Append(requests,
                               AddRequest(BackendOf(payload.kind), payload'))
    /\ pc' = "post"
    /\ UNCHANGED <<config, op, args, addCalls, lookupResp, postResp, results,
                   status, outcome>>
    /\ listingsServed' = Min(listingsServed + 1, MaxServed)
    /\ UNCHANGED <<statusResps, addResult>>

\* the add operation after the POST answered, and the return of its caller
AddPost ==
    /\ pc = "post"
    /\ \E resp \in PostResponses :
         /\ postResp' = resp
         /\ addResult' = AddResult(payload.kind, payload.title, resp)
         /\ outcome' = IF op = "search_and_add_show"
                         THEN ReturnList(results)
                       ELSE addResult'
    /\ pc' = "done"
    /\ UNCHANGED <<config, op, args, payload, requests, addCalls, lookupResp,
                   listingResp, results, status>>
    /\ UNCHANGED <<statusResps, listingsServed>>

\* search_and_add_show, up to its first await
CallSearchAndAddShow ==
    /\ pc = "idle"
    /\ \E description \in Titles, auto_add \in BOOLEAN :
         /\ op' = "search_and_add_show"
         /\ args' = [NoArgs EXCEPT !.title = description, !.auto_add = auto_add]
    /\ IF ~ConfigLoaded
         THEN /\ outcome' = Raise("Server not configured. Please set up Sonarr API key.")
              /\ pc' = "done"
              /\ UNCHANGED requests
       ELSE /\ requests' = Append(requests, LookupRequest("sonarr"))
            /\ pc' = "lookup"
            /\ UNCHANGED outcome
    /\ UNCHANGED <<config, payload, addCalls, lookupResp, listingResp,
                   postResp, results, status>>
    /\ UNCHANGED <<statusResps, addResult, listingsServed>>

\* the id and title search_and_add_show hands to add_series_to_sonarr
AutoAddId(show) == show.tvdb_id.n
AutoAddTitle(show) == show.title
\* the third positional argument of that call
AutoAddRootFolder(show) == show.tmdb_id

\* ShouldAutoAdd that adds the first of several results
ShouldAutoAdd_FirstOfMany(auto_add, rs) ==
    auto_add /\ Len(rs) >= 1 /\ Truthy(rs[1].tvdb_id)

\* the condition under which search_and_add_show calls add_series_to_sonarr
ShouldAutoAdd(auto_add, rs) ==
    auto_add /\ Len(rs) = 1 /\ Truthy(rs[1].tvdb_id)

\* search_and_add_show after the lookup answered
SearchAndAddShowLookup ==
    /\ pc = "lookup"
    /\ op = "search_and_add_show"
    /\ \E resp \in LookupResponses(ShowEntries, MaxShowLookup) :
         LET r == SearchLookup("sonarr", resp)
             rs == NormalizeShows(r.list) IN
         /\ lookupResp' = resp
         /\ IF ~r.ok
              THEN /\ outcome' = Raise(r.exc)
                   /\ pc' = "done"
                   /\ UNCHANGED <<results, payload, requests, addCalls>>
            ELSE /\ results' = rs
                 /\ IF ShouldAutoAdd(args.auto_add, rs)
                      THEN /\ BeginAdd("series", AutoAddId(rs[1]),
                                       AutoAddTitle(rs[1]), AutoAddRootFolder(rs[1]))
                           /\ UNCHANGED outcome
                    ELSE /\ outcome' = ReturnList(rs)
                         /\ pc' = "done"
                         /\ UNCHANGED <<payload, requests, addCalls>>
    /\ UNCHANGED <<config, op, args, listingResp, postResp, status>>
    /\ UNCHANGED <<statusResps, addResult, listingsServed>>

\* test_config, up to its first await
CallTestConfig ==
    /\ pc = "idle"
    /\ op' = "test_config"
    /\ args' = NoArgs
    /\ IF ~ConfigLoaded
         THEN /\ outcome' = ReturnErrorOnly("No configuration loaded")
              /\ pc' = "done"
              /\ UNCHANGED requests
       ELSE IF config.radarr_api_key = ""
         THEN /\ outcome' = [NoOutcome EXCEPT
                               !.kind = "return", !.type = "dict",
                               !.keys = {"config_loaded", "radarr_search_connectivity"},
                               !.connectivity = "no_api_key"]
              /\ pc' = "done"
              /\ UNCHANGED requests
       ELSE /\ requests' = Append(requests, LookupRequest("radarr"))
            /\ pc' = "lookup"
            /\ UNCHANGED outcome
    /\ UNCHANGED <<config, payload, addCalls, lookupResp, listingResp,
                   postResp, results, status>>
    /\ UNCHANGED <<statusResps, addResult, listingsServed>>

\* test_config after the lookup answered
TestConfigLookup ==
    /\ pc = "lookup"
    /\ op = "test_config"
    /\ \E resp \in LookupResponses(MovieEntries, MaxMovieLookup) :
         LET r == SearchLookup("radarr", resp) IN
         /\ lookupResp' = resp
         /\ outcome' =
              IF r.ok
                THEN [NoOutcome EXCEPT
                        !.kind = "return", !.type = "dict",
                        !.keys = {"config_loaded", "radarr_search_connectivity",
                                  "radarr_test_results"},
                        !.connectivity = "success",
                        !.total_found = Len(r.list)]
              ELSE [NoOutcome EXCEPT
                      !.kind = "return", !.type = "dict",
                      !.keys = {"config_loaded", "radarr_search_connectivity",
                                "radarr_search_error"},
                      !.connectivity = "failed",
                      !.error = r.exc]
    /\ pc' = "done"
    /\ UNCHANGED <<config, op, args, payload, requests, addCalls, listingResp,
                   postResp, results, status>>
    /\ UNCHANGED <<statusResps, addResult, listingsServed>>

\* get_server_status, up to its first await
CallGetServerStatus ==
    /\ pc = "idle"
    /\ op' = "get_server_status"
    /\ args' = NoArgs
    /\ IF ~ConfigLoaded
         THEN /\ outcome' = ReturnErrorOnly("Server not configured")
              /\ pc' = "done"
              /\ UNCHANGED requests
       ELSE /\ requests' = Append(requests, StatusRequest("radarr"))
            /\ pc' = "status_radarr"
            /\ UNCHANGED outcome
    /\ UNCHANGED <<config, payload, addCalls, lookupResp, listingResp,
                   postResp, results, status>>
    /\ UNCHANGED <<statusResps, addResult, listingsServed>>

\* RadarrStatus with a check_radarr_status that lets the failure propagate
RadarrStatus_Propagates ==
    /\ pc = "status_radarr"
    /\ \E resp \in StatusResponses :
         /\ statusResps' = Append(statusResps, resp)
         /\ IF resp.fault \/ RaisesForStatus(resp)
              THEN /\ outcome' = Raise(ExceptionText(resp))
                   /\ pc' = "done"
                   /\ UNCHANGED <<status, requests>>
            ELSE /\ status' = CheckStatus(resp)
                 /\ requests' = Append(requests, StatusRequest("sonarr"))
                 /\ pc' = "status_sonarr"
                 /\ UNCHANGED outcome
    /\ UNCHANGED <<config, op, args, payload, addCalls, lookupResp,
                   listingResp, postResp, results, addResult, listingsServed>>

\* get_server_status after check_radarr_status returned
RadarrStatus ==
    /\ pc = "status_radarr"
    /\ \E resp \in StatusResponses :
         /\ status' = CheckStatus(resp)
         /\ statusResps' = Append(statusResps, resp)
    /\ requests' = Append(requests, StatusRequest("sonarr"))
    /\ pc' = "status_sonarr"
    /\ UNCHANGED <<config, op, args, payload, addCalls, lookupResp,
                   listingResp, postResp, results, outcome>>
    /\ UNCHANGED <<addResult, listingsServed>>

\* get_server_status after check_sonarr_status returned
SonarrStatus ==
    /\ pc = "status_sonarr"
    /\ \E resp \in StatusResponses :
         /\ statusResps' = Append(statusResps, resp)
         /\ outcome' = [NoOutcome EXCEPT
                          !.kind = "return", !.type = "dict",
                          !.keys = {"radarr", "sonarr", "timestamp"},
                          !.radarr = status,
                          !.sonarr = CheckStatus(resp)]
    /\ pc' = "done"
    /\ UNCHANGED <<config, op, args, payload, requests, addCalls, lookupResp,
                   listingResp, postResp, results, status>>
    /\ UNCHANGED <<addResult, listingsServed>>

\* the invocation is over; its locals are gone, only `config` remains
Finish ==
    /\ pc = "done"
    /\ pc' = "idle"
    /\ op' = "none"
    /\ args' = NoArgs
    /\ payload' = NoPayload
    /\ requests' = <<>>
    /\ addCalls' = <<>>
    /\ lookupResp' = NoResp
    /\ listingResp' = NoResp
    /\ postResp' = NoResp
    /\ results' = <<>>
    /\ status' = NoStatus
    /\ outcome' = NoOutcome
    /\ UNCHANGED config
    /\ statusResps' = <<>>
    /\ addResult' = NoOutcome
    /\ UNCHANGED listingsServed

Next ==
    \/ SetupConfig
    \/ CallSearchMovies
    \/ SearchMoviesLookup
    \/ CallAddMovieById
    \/ CallAddShowByTvdbId
    \/ AddListing
    \/ AddPost
    \/ CallSearchAndAddShow
    \/ SearchAndAddShowLookup
    \/ CallTestConfig
    \/ TestConfigLookup
    \/ CallGetServerStatus
    \/ RadarrStatus
    \/ SonarrStatus
    \/ Finish

Spec == Init /\ [][Next]_vars

TypeOK == pc \in {"idle", "lookup", "listing", "post", "status_radarr",
                  "status_sonarr", "done"}

-----------------------------------------------------------------------------
(* Properties *)

\* the add call of the running invocation and the requests it has issued
AddStarted == addCalls # <<>>
TheAdd == addCalls[1]
AddKind == IF TheAdd.fn = "add_movie_to_radarr" THEN "movie" ELSE "series"
AddBackend == IF AddKind = "movie" THEN "radarr" ELSE "sonarr"
AddConfigured == IF AddKind = "movie" THEN config.radarr_root_folder
                 ELSE config.sonarr_root_folder
AddRequests ==
    IF op = "search_and_add_show" THEN SubSeq(requests, 2, Len(requests))
    ELSE requests
PostSent == AddStarted /\ pc \in {"post", "done"}
ThePost == requests[Len(requests)]
Given(v) == v # PyNone /\ v # PyStr("")
ListingUsable ==
    /\ listingResp.got /\ ~listingResp.fault /\ listingResp.status = 200
    /\ Len(listingResp.list) > 0

\* C1: in both add operations the rootFolderPath of the add request is the
\* given (non-empty) explicit root_folder argument if there is one, else the
\* backend's configured root folder if one is set, else the path of the
\* first entry of that backend's root-folder listing, and when the listing
\* yields nothing the add request is still sent, without a rootFolderPath
C1_RootFolderResolution ==
    PostSent =>
        /\ ThePost.method = "POST" /\ ThePost.backend = AddBackend
        /\ IF Given(TheAdd.root_folder)
             THEN /\ ThePost.body.hasRootFolderPath
                  /\ ThePost.body.rootFolderPath = TheAdd.root_folder
           ELSE IF Given(AddConfigured)
             THEN /\ ThePost.body.hasRootFolderPath
                  /\ ThePost.body.rootFolderPath = AddConfigured
           ELSE IF ListingUsable
             THEN /\ ThePost.body.hasRootFolderPath
                  /\ ThePost.body.rootFolderPath = PyStr(listingResp.list[1])
           ELSE ~ThePost.body.hasRootFolderPath

C1_Witness ==
    /\ pc = "done" /\ op = "add_show_by_tvdb_id" /\ AddStarted
    /\ TheAdd.root_folder = PyNone /\ config.sonarr_root_folder = PyNone
    /\ config.radarr_root_folder = PyStr("/y")
    /\ listingResp.list = <<"/z2", "/z">>
    /\ ThePost.body.rootFolderPath = PyStr("/z2")

\* C2: with configuration present, add_movie_by_id and add_show_by_tvdb_id
\* (and the add operation they run) end by returning an AddMediaResponse
\* whatever network fault happened: a fault of the root-folder listing does
\* not stop the POST, and a fault of the POST gives success=false with a
\* message
C2_AddNeverRaisesOnFault ==
    /\ (pc = "done" /\ op \in {"add_movie_by_id", "add_show_by_tvdb_id"}
          /\ config.set) =>
            /\ outcome.kind = "return" /\ outcome.type = "AddMediaResponse"
            /\ postResp.got
    /\ (pc = "done" /\ AddStarted) =>
            /\ addResult.kind = "return" /\ addResult.type = "AddMediaResponse"
            /\ postResp.fault => ~addResult.success /\ addResult.message # ""

C2_Witness ==
    /\ pc = "done" /\ op = "add_movie_by_id"
    /\ listingResp.fault /\ postResp.fault
    /\ outcome.type = "AddMediaResponse" /\ ~outcome.success

\* C3: when the series lookup succeeds, search_and_add_show calls
\* add_series_to_sonarr exactly once, with the result's tvdb id and title,
\* if auto_add is true and there is exactly one normalized result and it
\* carries a tvdb id; otherwise it makes no add call; either way it returns
\* the list of results
C3_AutoAddExactlyOnce ==
    (op = "search_and_add_show") =>
        /\ Len(addCalls) <= 1
        /\ (pc = "done" /\ lookupResp.got /\ ~lookupResp.fault
              /\ lookupResp.status = 200) =>
             /\ outcome.kind = "return" /\ outcome.type = "list"
             /\ outcome.results = results
             /\ IF args.auto_add /\ Len(results) = 1
                   /\ results[1].tvdb_id # PyNone
                  THEN /\ Len(addCalls) = 1
                       /\ TheAdd.fn = "add_series_to_sonarr"
                       /\ PyInt(TheAdd.id) = results[1].tvdb_id
                       /\ TheAdd.title = results[1].title
                ELSE addCalls = <<>>
        /\ (pc = "done" /\ outcome.kind = "raise") => addCalls = <<>>

C3_Witness ==
    /\ pc = "done" /\ op = "search_and_add_show"
    /\ Len(addCalls) = 1 /\ TheAdd.id = 2 /\ TheAdd.title = "Torchwood"
    /\ outcome.results = results

\* C4: when a backend answers a lookup with 401, the tool that performed
\* the lookup returns a structure carrying an error field and does not raise
C4_AuthErrorBecomesErrorField ==
    (pc = "done" /\ lookupResp.got /\ ~lookupResp.fault
       /\ lookupResp.status = HTTP_UNAUTHORIZED) =>
        /\ outcome.kind = "return"
        /\ outcome.keys \cap {"error", "radarr_search_error"} # {}

\* C5: when the backend answers the add POST with 201, the add operation
\* returns success=true and a non-null media_id equal to the body's id
C5_CreatedGivesSuccessAndId ==
    (pc = "done" /\ AddStarted /\ ~postResp.fault
       /\ postResp.status = HTTP_CREATED) =>
        /\ addResult.success
        /\ addResult.media_id # PyNone
        /\ addResult.media_id = postResp.id
        /\ op # "search_and_add_show" => outcome = addResult

C5_Witness ==
    /\ pc = "done" /\ op = "add_show_by_tvdb_id"
    /\ postResp.status = HTTP_CREATED /\ postResp.id = PyInt(2)
    /\ outcome.success /\ outcome.media_id = PyInt(2)

\* C6: an answer to the add POST with any status other than 201, 200
\* included, gives success=false, no media_id and a message that carries the
\* raw response body; success=true comes only with status 201
C6_OnlyCreatedIsSuccess ==
    (pc = "done" /\ AddStarted) =>
        /\ (~postResp.fault /\ postResp.status # HTTP_CREATED) =>
             /\ ~addResult.success
             /\ addResult.media_id = PyNone
             /\ \E prefix \in {"Failed to add movie: ", "Failed to add series: "} :
                  addResult.message = prefix \o postResp.text
        /\ addResult.success =>
             ~postResp.fault /\ postResp.status = HTTP_CREATED

C6_Witness ==
    /\ pc = "done" /\ op = "add_movie_by_id"
    /\ postResp.status = 200 /\ postResp.text = "rejected"
    /\ ~outcome.success
    /\ outcome.message = "Failed to add movie: rejected"

\* C7: while config is None no tool issues a network request: each one
\* finishes at once, and test_config returns a structure with an error field
C7_NoConfigNoNetwork ==
    ~config.set =>
        /\ requests = <<>>
        /\ pc \in {"idle", "done"}
        /\ ~lookupResp.got /\ ~listingResp.got /\ ~postResp.got
        /\ statusResps = <<>>
        /\ (pc = "done" /\ op = "test_config") =>
             outcome.kind = "return" /\ "error" \in outcome.keys

C7_Witness ==
    /\ ~config.set /\ pc = "done" /\ op = "test_config"
    /\ outcome.error = "No configuration loaded" /\ requests = <<>>

StatusOk(resp) == ~resp.fault /\ resp.status = 200

\* C8: get_server_status with configuration present always returns an
\* outcome for both backends, each "connected" or "error" according to that
\* backend's answer, whatever the answers or faults were; the series backend
\* is queried after the movie backend's check failed as well
C8_StatusNeverRaises ==
    (op = "get_server_status" /\ config.set) =>
        /\ pc # "idle"
        /\ pc = "status_sonarr" =>
             /\ requests = <<StatusRequest("radarr"), StatusRequest("sonarr")>>
             /\ status.status = IF StatusOk(statusResps[1]) THEN "connected"
                                ELSE "error"
        /\ pc = "done" =>
             /\ outcome.kind = "return"
             /\ {"radarr", "sonarr"} \subseteq outcome.keys
             /\ Len(statusResps) = 2
             /\ requests = <<StatusRequest("radarr"), StatusRequest("sonarr")>>
             /\ outcome.radarr.status = IF StatusOk(statusResps[1])
                                          THEN "connected" ELSE "error"
             /\ outcome.sonarr.status = IF StatusOk(statusResps[2])
                                          THEN "connected" ELSE "error"

C8_Witness ==
    /\ pc = "done" /\ op = "get_server_status" /\ Len(statusResps) = 2
    /\ statusResps[1].fault /\ StatusOk(statusResps[2])
    /\ outcome.radarr.status = "error" /\ outcome.sonarr.status = "connected"

LookupOk == lookupResp.got /\ ~lookupResp.fault /\ lookupResp.status = 200

\* C9: for every lookup answer search_movies returns at most 10 results and
\* search_and_add_show at most 5, and result i is the normalization of entry
\* i of the backend's list: the results are the leading entries, in order
C9_ResultsArePrefix ==
    (pc = "done" /\ LookupOk /\ op \in {"search_movies", "search_and_add_show"}) =>
        LET limit == IF op = "search_movies" THEN 10 ELSE 5
            raw == lookupResp.list
            rs == outcome.results IN
        /\ outcome.kind = "return"
        /\ Len(rs) <= limit
        /\ Len(rs) = IF Len(raw) <= limit THEN Len(raw) ELSE limit
        /\ \A i \in 1..Len(rs) :
             /\ rs[i].tmdb_id = raw[i].tmdbId
             /\ raw[i].title # PyNone => rs[i].title = raw[i].title.s
             /\ raw[i].title = PyNone => rs[i].title = "Unknown"
             /\ op = "search_and_add_show" => rs[i].tvdb_id = raw[i].tvdbId

C9_Witness ==
    /\ pc = "done" /\ op = "search_movies"
    /\ Len(lookupResp.list) = 11 /\ Len(outcome.results) = 10
    /\ lookupResp.list[1].tmdbId = PyInt(2)
    /\ lookupResp.list[2].tmdbId = PyInt(1)
    /\ outcome.results[1].tmdb_id = PyInt(2)
    /\ outcome.results[2].tmdb_id = PyInt(1)

NeedsListing == ~Given(TheAdd.root_folder) /\ ~Given(AddConfigured)

\* C10: the requests of one add invocation are one root-folder GET, only
\* when there is neither an explicit nor a configured root folder, and then
\* exactly one add POST; nothing is sent again after a failure; and an
\* invocation that needs the listing fetches it itself, also when an
\* earlier invocation has fetched it
C10_AddRequestSequence ==
    AddStarted =>
        /\ pc \in {"listing", "post", "done"}
        /\ pc = "listing" =>
             NeedsListing /\ AddRequests = <<RootFolderRequest(AddBackend)>>
        /\ pc \in {"post", "done"} =>
             /\ AddRequests =
                  IF NeedsListing
                    THEN <<RootFolderRequest(AddBackend),
                           AddRequest(AddBackend, payload)>>
                  ELSE <<AddRequest(AddBackend, payload)>>
             /\ NeedsListing <=> listingResp.got
             /\ NeedsListing => listingsServed >= 1

C10_Witness ==
    /\ pc = "done" /\ op = "add_movie_by_id"
    /\ listingsServed = 2 /\ listingResp.fault /\ postResp.fault
    /\ requests = <<RootFolderRequest("radarr"), AddRequest("radarr", payload)>>

\* C11: when search_and_add_show auto-adds a show it passes no explicit root
\* folder to add_series_to_sonarr, so the rootFolderPath of the series add
\* request is the configured series root folder if one is set, otherwise
\* the first listed folder, and never one of the result's catalog ids
C11_AutoAddUsesConfiguredRootFolder ==
    (op = "search_and_add_show" /\ PostSent) =>
        /\ TheAdd.root_folder = PyNone
        /\ ThePost.body.rootFolderPath.kind # "int"
        /\ IF Given(config.sonarr_root_folder)
             THEN /\ ThePost.body.hasRootFolderPath
                  /\ ThePost.body.rootFolderPath = config.sonarr_root_folder
           ELSE IF ListingUsable
             THEN /\ ThePost.body.hasRootFolderPath
                  /\ ThePost.body.rootFolderPath = PyStr(listingResp.list[1])
           ELSE ~ThePost.body.hasRootFolderPath

====
